---- MODULE Spec2Model ----
(***************************************************************************)
(* The itinerary Lambda of daytripper-api: one invocation of `handler`     *)
(* (src/lambda/itinerary/handler.ts) from the incoming event to its        *)
(* response, with the three external services (geocoding, nearby search,   *)
(* place details) as the environment, and the selector pickTopPlaces as a  *)
(* pure function with a specification of its own.                          *)
(***************************************************************************)
EXTENDS Integers, Sequences, FiniteSets, TLC

VARIABLES
    event,          \* the APIGatewayProxyEventV2: method and body
    apiKey,         \* process.env.GOOGLE_MAPS_API_KEY
    pc,             \* where the invocation is
    origin,         \* the resolved origin
    geocodeCalls,   \* fetches issued by geocodeZipToLatLng
    searchCalls,    \* fetches issued by nearbySearchPlacesV1
    detailCalls,    \* fetches issued by getPlaceDetailsV1
    searchSt,       \* per category: the state of its search promise
    results,        \* per category: the places its search returned
    assembled,      \* control has reached stop assembly (line 408)
    chosen,         \* the stop list
    detailSt,       \* per stop: the state of its detail promise
    detailsById,    \* the Map of line 460
    response,       \* what the handler returned
    places,         \* pickTopPlaces: its first argument
    count,          \* pickTopPlaces: its second argument
    picked,         \* pickTopPlaces: its result
    pickPc          \* pickTopPlaces: called or not

vars == <<event, apiKey, pc, origin, geocodeCalls, searchCalls, detailCalls,
          searchSt, results, assembled, chosen, detailSt, detailsById,
          response, places, count, picked, pickPc>>

handlerVars == <<event, apiKey, pc, origin, geocodeCalls, searchCalls,
                 detailCalls, searchSt, results, assembled, chosen, detailSt,
                 detailsById, response>>

pickVars == <<places, count, picked, pickPc>>

(***************************************************************************)
(* Bounds of the model.                                                    *)
(***************************************************************************)
MaxPlaces == 2      \* longest candidate list handed to pickTopPlaces alone
MaxRating == 1      \* ratings range over 0..MaxRating

(***************************************************************************)
(* Optional values: a field that is undefined is <<>>, a present v is <<v>>.*)
(***************************************************************************)
None == <<>>
Some(v) == <<v>>
IsSome(o) == Len(o) > 0

\* JavaScript truthiness of an optional string and of an optional number
TruthyStr(o) == IsSome(o) /\ o[1] # ""
TruthyNum(o) == IsSome(o) /\ o[1] # 0

\* a ?? d
Nullish(o, d) == IF IsSome(o) THEN o[1] ELSE d

Min(a, b) == IF a <= b THEN a ELSE b

\* Array.prototype.slice(0, n)
Slice(s, n) == SubSeq(s, 1, Min(n, Len(s)))

(***************************************************************************)
(* PlacesV1SearchResult and the selector.                                  *)
(***************************************************************************)
Place(id, name, lat, lng, rating, cnt) ==
    [id |-> id, name |-> name, latitude |-> lat, longitude |-> lng,
     rating |-> rating, userRatingCount |-> cnt]

\* the predicate of .filter(...)
PassesFilter(p) ==
    /\ TruthyStr(p.id)
    /\ TruthyStr(p.name)
    /\ TruthyNum(p.latitude)
    /\ TruthyNum(p.longitude)

\* the comparator of .sort(...): negative when a goes first
Compare(a, b) ==
    LET ar == Nullish(a.rating, 0)
        br == Nullish(b.rating, 0)
        ac == Nullish(a.userRatingCount, 0)
        bc == Nullish(b.userRatingCount, 0)
    IN  IF br # ar THEN br - ar ELSE bc - ac

\* p put into the sorted s behind every element it does not go before
RECURSIVE Insert(_, _)
Insert(s, p) ==
    IF s = <<>> THEN <<p>>
    ELSE IF Compare(s[Len(s)], p) > 0
         THEN Append(Insert(SubSeq(s, 1, Len(s) - 1), p), s[Len(s)])
         ELSE Append(s, p)

\* Array.prototype.sort with Compare: stable (ECMAScript 2019, Node.js 20)
RECURSIVE SortPlaces(_)
SortPlaces(s) ==
    IF s = <<>> THEN <<>>
    ELSE Insert(SortPlaces(SubSeq(s, 1, Len(s) - 1)), s[Len(s)])

pickTopPlaces(ps, n) == Slice(SortPlaces(SelectSeq(ps, PassesFilter)), n)

(***************************************************************************)
(* The request: JSON.parse and ItineraryRequestSchema.                     *)
(***************************************************************************)
\* the JSON object of a body; a string is the sequence of its characters
\* where the schema looks inside it (zipCode), explain is the JSON token
Json(org, zip, dist, ints, spice, adv, expl) ==
    [origin |-> org, zipCode |-> zip, maxDistanceMiles |-> dist,
     intents |-> ints, spiceLabel |-> spice, adventureScore |-> adv,
     explain |-> expl]

Digits == {"0", "1", "2", "3", "4", "5", "6", "7", "8", "9"}

RECURSIVE TrimStart(_)
TrimStart(s) ==
    IF s # <<>> /\ s[1] = " " THEN TrimStart(SubSeq(s, 2, Len(s))) ELSE s

RECURSIVE TrimEnd(_)
TrimEnd(s) ==
    IF s # <<>> /\ s[Len(s)] = " " THEN TrimEnd(SubSeq(s, 1, Len(s) - 1)) ELSE s

\* String.prototype.trim, as z.string().trim() applies it
Trim(s) == TrimEnd(TrimStart(s))

\* /^\d{5}$/
IsZip(s) == Len(s) = 5 /\ \A i \in 1..5 : s[i] \in Digits

\* one field of the schema: absent, or within its rule
FieldOk(j, path) ==
    CASE path = "origin" ->
            ~IsSome(j.origin) \/
                (/\ j.origin[1].lat >= -90 /\ j.origin[1].lat <= 90
                 /\ j.origin[1].lng >= -180 /\ j.origin[1].lng <= 180)
      [] path = "zipCode" ->
            ~IsSome(j.zipCode) \/ IsZip(Trim(j.zipCode[1]))
      [] path = "maxDistanceMiles" ->
            ~IsSome(j.maxDistanceMiles) \/
                (j.maxDistanceMiles[1] > 0 /\ j.maxDistanceMiles[1] <= 100)
      [] path = "intents" ->
            ~IsSome(j.intents) \/ Len(j.intents[1]) <= 3
      [] path = "preferences.spiceLabel" ->
            ~IsSome(j.spiceLabel) \/ j.spiceLabel[1] \in {"mild", "medium", "hot"}
      [] path = "preferences.adventureScore" ->
            ~IsSome(j.adventureScore) \/
                (j.adventureScore[1] >= 1 /\ j.adventureScore[1] <= 10)
      [] path = "explain" ->
            ~IsSome(j.explain) \/ j.explain[1] \in {"true", "false"}

SchemaPaths ==
    {"origin", "zipCode", "maxDistanceMiles", "intents",
     "preferences.spiceLabel", "preferences.adventureScore", "explain"}

\* the paths of the schema's issues for a JSON object; the .refine of line 39
\* reports "origin" on an object whose fields parsed
Violations(j) ==
    LET fields == {path \in SchemaPaths : ~FieldOk(j, path)}
    IN  IF fields = {} /\ ~IsSome(j.origin) /\ ~IsSome(j.zipCode)
        THEN {"origin"} ELSE fields

\* what the schema hands back for a JSON object without issues
SchemaOutput(j) ==
    [j EXCEPT !.zipCode = IF IsSome(@) THEN Some(Trim(@[1])) ELSE None]

\* parseJsonBody: the request, or the error it throws
parseJsonBody(ev) ==
    IF ~ev.body.wellFormed
    THEN [threw |-> "SyntaxError", req |-> ev.body.json]
    ELSE IF Violations(ev.body.json) # {}
         THEN [threw |-> "ZodError", req |-> ev.body.json]
         ELSE [threw |-> "", req |-> SchemaOutput(ev.body.json)]

toAdventureScore(spiceLabel) ==
    IF ~IsSome(spiceLabel) THEN None
    ELSE IF spiceLabel[1] = "mild" THEN Some(2)
    ELSE IF spiceLabel[1] = "medium" THEN Some(6)
    ELSE Some(9)

\* Boolean(req.explain)
Explain(req) == req.explain = Some("true")

\* req.preferences?.adventureScore ?? toAdventureScore(spiceLabel)
AdventureScore(req) ==
    IF IsSome(req.adventureScore) THEN req.adventureScore
    ELSE toAdventureScore(req.spiceLabel)

(***************************************************************************)
(* Responses.                                                              *)
(***************************************************************************)
CORS_HEADERS ==
    [contentType |-> "application/json", allowOrigin |-> "*",
     allowHeaders |-> "content-type", allowMethods |-> "OPTIONS,POST"]

NoHeaders ==
    [contentType |-> "", allowOrigin |-> "", allowHeaders |-> "", allowMethods |-> ""]

\* nothing returned (yet)
NoResponse ==
    [statusCode |-> 0, headers |-> NoHeaders, error |-> None, details |-> FALSE,
     totalStops |-> None, stops |-> <<>>]

\* a response whose body is JSON.stringify({error, details})
ErrorResponse(code, msg, det) ==
    [statusCode |-> code, headers |-> CORS_HEADERS, error |-> Some(msg),
     details |-> det, totalStops |-> None, stops |-> <<>>]

PreflightResponse ==
    [statusCode |-> 204, headers |-> CORS_HEADERS, error |-> None, details |-> FALSE,
     totalStops |-> None, stops |-> <<>>]

\* the response builder without its zero-stops check
BuildResponse_NoEmptyCheck(stops) ==
    [statusCode |-> 200, headers |-> CORS_HEADERS, error |-> None,
     details |-> FALSE, totalStops |-> Some(Len(stops)), stops |-> stops]

\* lines 490-526: 404 without stops, else the itinerary
BuildResponse(stops) ==
    IF Len(stops) = 0
    THEN ErrorResponse(404, "No places found", TRUE)
    ELSE [statusCode |-> 200, headers |-> CORS_HEADERS, error |-> None,
          details |-> FALSE, totalStops |-> Some(Len(stops)), stops |-> stops]

(***************************************************************************)
(* Stop assembly (lines 408-456).                                          *)
(***************************************************************************)
\* a stop that carries its rationale whatever explain is
placeToStop_AlwaysRationale(place, kind, order, explain, rationale) ==
    [id |-> place.id[1],
     order |-> order,
     kind |-> kind,
     name |-> Nullish(place.name, "Unknown"),
     estimatedDurationMinutes |->
        IF kind = "coffee" THEN 35 ELSE IF kind = "restaurant" THEN 75 ELSE 120,
     lat |-> place.latitude[1],
     lng |-> place.longitude[1],
     rationale |-> rationale]

placeToStop(place, kind, order, explain, rationale) ==
    [id |-> place.id[1],
     order |-> order,
     kind |-> kind,
     name |-> Nullish(place.name, "Unknown"),
     estimatedDurationMinutes |->
        IF kind = "coffee" THEN 35 ELSE IF kind = "restaurant" THEN 75 ELSE 120,
     lat |-> place.latitude[1],
     lng |-> place.longitude[1],
     rationale |-> IF explain THEN rationale ELSE None]

CoffeeRationale == "Highly-rated cafe nearby to start the day."

ActivityRationale(req) ==
    IF TruthyNum(AdventureScore(req)) /\ AdventureScore(req)[1] > 7
    THEN "A higher-energy activity choice based on your adventure score."
    ELSE "A solid nearby activity pick based on ratings and proximity."

LunchRationale(req) ==
    IF TruthyStr(req.spiceLabel)
    THEN "A lunch spot to match your spice preference (" \o req.spiceLabel[1] \o ")."
    ELSE "A well-rated lunch option nearby."

\* a stop list whose activity bucket takes the museum pick before the park pick
ChooseStops_MuseumFirst(res, req) ==
    LET explain == Explain(req)
        pickedCoffee == pickTopPlaces(res["cafe"], 1)
        pickedLunch == pickTopPlaces(res["restaurant"], 1)
        pickedActivities ==
            Slice(pickTopPlaces(res["museum"], 1) \o pickTopPlaces(res["park"], 1), 2)
        nC == Len(pickedCoffee)
        nA == Len(pickedActivities)
        nL == Len(pickedLunch)
    IN  [i \in 1..(nC + nA + nL) |->
            IF i <= nC
            THEN placeToStop(pickedCoffee[i], "coffee", i, explain,
                             Some(CoffeeRationale))
            ELSE IF i <= nC + nA
            THEN placeToStop(pickedActivities[i - nC], "activity", i, explain,
                             Some(ActivityRationale(req)))
            ELSE placeToStop(pickedLunch[i - nC - nA], "restaurant", i, explain,
                             Some(LunchRationale(req)))]

\* the stop list after the three for loops, order++ being the position
ChooseStops(res, req) ==
    LET explain == Explain(req)
        pickedCoffee == pickTopPlaces(res["cafe"], 1)
        pickedLunch == pickTopPlaces(res["restaurant"], 1)
        pickedActivities ==
            Slice(pickTopPlaces(res["park"], 1) \o pickTopPlaces(res["museum"], 1), 2)
        nC == Len(pickedCoffee)
        nA == Len(pickedActivities)
        nL == Len(pickedLunch)
    IN  [i \in 1..(nC + nA + nL) |->
            IF i <= nC
            THEN placeToStop(pickedCoffee[i], "coffee", i, explain,
                             Some(CoffeeRationale))
            ELSE IF i <= nC + nA
            THEN placeToStop(pickedActivities[i - nC], "activity", i, explain,
                             Some(ActivityRationale(req)))
            ELSE placeToStop(pickedLunch[i - nC - nA], "restaurant", i, explain,
                             Some(LunchRationale(req)))]

(***************************************************************************)
(* Rationale enrichment (lines 458-488).                                   *)
(***************************************************************************)
AddressComponent(long, short, types) ==
    [longText |-> long, shortText |-> short, types |-> types]

PreferredTypes ==
    <<"neighborhood", "sublocality", "locality", "administrative_area_level_2">>

\* comps.find((c) => (c.types ?? []).includes(t))
RECURSIVE FindComponent(_, _)
FindComponent(comps, t) ==
    IF comps = <<>> THEN None
    ELSE IF t \in Nullish(comps[1].types, {}) THEN Some(comps[1])
    ELSE FindComponent(SubSeq(comps, 2, Len(comps)), t)

\* the for loop over preferredTypes, from its k-th type on
RECURSIVE ScanTypes(_, _)
ScanTypes(comps, k) ==
    IF k > Len(PreferredTypes) THEN None
    ELSE LET comp == FindComponent(comps, PreferredTypes[k])
         IN  IF IsSome(comp) /\ TruthyStr(comp[1].longText) THEN comp[1].longText
             ELSE IF IsSome(comp) /\ TruthyStr(comp[1].shortText) THEN comp[1].shortText
             ELSE ScanTypes(comps, k + 1)

extractNeighborhoodLikeLabel(details) ==
    ScanTypes(Nullish(details.addressComponents, <<>>), 1)

\* the for loop of lines 474-484
EnrichStops(stops, byId) ==
    [i \in 1..Len(stops) |->
        LET stop == stops[i]
            neighborhood ==
                IF stop.id \in DOMAIN byId
                THEN extractNeighborhoodLikeLabel(byId[stop.id])
                ELSE None
        IN  IF TruthyStr(neighborhood)
            THEN [stop EXCEPT !.rationale =
                    IF TruthyStr(@)
                    THEN Some(@[1] \o " (Area: " \o neighborhood[1] \o ")")
                    ELSE Some("Picked because it's in/near " \o neighborhood[1] \o ".")]
            ELSE stop]

\* a catch block that goes on to label the stops whose details did arrive
EnrichmentCatch_Partial(stops, byId) == EnrichStops(stops, byId)

\* the catch block: the error is logged, the stops are what they were
EnrichmentCatch(stops, byId) == stops

\* Promise.allSettled in the place of Promise.all: it waits for every promise
\* and never rejects
PromiseAll_AllSettled(st) ==
    IF \A k \in DOMAIN st : st[k] \in {"ok", "failed"} THEN "fulfilled"
    ELSE "pending"

\* Promise.all over the promises whose states are st
PromiseAll(st) ==
    IF \E k \in DOMAIN st : st[k] = "failed" THEN "rejected"
    ELSE IF \A k \in DOMAIN st : st[k] = "ok" THEN "fulfilled"
    ELSE "pending"

(***************************************************************************)
(* The external services' answers.                                         *)
(***************************************************************************)
\* what a fetch ends with: the promise rejects, or a response with resp.ok
\* and the JSON of its body
Reply(status, data) == [status |-> status, data |-> data]

\* geocodeZipToLatLng on the geocoder's answer: data is
\* results?.[0]?.geometry?.location
geocodeZipToLatLng(reply) ==
    IF reply.status # "ok" THEN [threw |-> TRUE, value |-> None]
    ELSE IF \/ ~IsSome(reply.data)
            \/ ~IsSome(reply.data[1].lat)
            \/ ~IsSome(reply.data[1].lng)
         THEN [threw |-> TRUE, value |-> None]
         ELSE [threw |-> FALSE,
               value |-> Some([lat |-> reply.data[1].lat[1],
                               lng |-> reply.data[1].lng[1]])]

\* nearbySearchPlacesV1 on the search service's answer: data is data.places
nearbySearchPlacesV1(reply) ==
    IF reply.status # "ok" THEN [threw |-> TRUE, value |-> <<>>]
    ELSE [threw |-> FALSE, value |-> Nullish(reply.data, <<>>)]

\* getPlaceDetailsV1 on the detail service's answer
getPlaceDetailsV1(reply) ==
    IF reply.status # "ok" THEN [threw |-> TRUE, value |-> reply.data]
    ELSE [threw |-> FALSE, value |-> reply.data]

(***************************************************************************)
(* The inputs: events, credentials and the services' answers.              *)
(***************************************************************************)
Origin1 == [lat |-> 45, lng |-> -122]
OriginOutOfRange == [lat |-> 91, lng |-> 0]
Zip5 == <<"9", "7", "2", "0", "1">>
Zip5Padded == <<" ", "9", "7", "2", "0", "1", " ">>
Zip4 == <<"1", "2", "3", "4">>

EmptyJson == Json(None, None, None, None, None, None, None)

Jsons ==
    {Json(o, z, None, None, pf[1], pf[2], e) :
        o \in {None, Some(Origin1)},
        z \in {None, Some(Zip5)},
        pf \in {<<None, None>>, <<Some("hot"), None>>, <<Some("mild"), Some(3)>>},
        e \in {None, Some("true"), Some("false")}}
    \cup {Json(None, Some(Zip5Padded), Some(30), Some(<<"food">>), None, Some(9), Some("true")),
          Json(None, Some(Zip4), None, None, None, None, None),
          Json(Some(OriginOutOfRange), None, None, None, None, None, None),
          Json(Some(Origin1), None, Some(101), None, None, None, None),
          Json(Some(Origin1), None, None, Some(<<"a", "b", "c", "d">>), None, None, None),
          Json(Some(Origin1), None, None, None, Some("extra"), None, None),
          Json(Some(Origin1), None, None, None, None, Some(11), None),
          Json(Some(Origin1), None, None, None, None, None, Some("\"yes\""))}

\* event.body: text JSON.parse rejects, or the text of a JSON object (an
\* absent body is read as "{}")
Bodies ==
    {[wellFormed |-> FALSE, json |-> EmptyJson]}
    \cup {[wellFormed |-> TRUE, json |-> j] : j \in Jsons}

Events == [method : {"OPTIONS", "POST"}, body : Bodies]

\* the variable unset, set to "" (infra-stack.ts line 23), or set
ApiKeys == {None, Some(""), Some("key")}

Categories == {"cafe", "restaurant", "park", "museum"}

Alpha == Place(Some("p1"), Some("Alpha"), Some(45), Some(-122), Some(1), Some(7))
Beta == Place(Some("p2"), Some("Beta"), Some(45), Some(-122), Some(1), Some(9))
Equator == Place(Some("p3"), Some("Equator"), Some(0), Some(-122), Some(1), Some(9))
Nameless == Place(Some("p4"), None, Some(45), Some(-122), None, None)

GeocodeReplies ==
    {Reply("rejected", None),
     Reply("notOk", None),
     Reply("ok", None),
     Reply("ok", Some([lat |-> Some(45), lng |-> None])),
     Reply("ok", Some([lat |-> Some(0), lng |-> Some(0)]))}

\* what the search of category c may answer; the museums' best candidate is
\* another place than the other categories'
SearchReplies(c) ==
    {Reply("rejected", None),
     Reply("notOk", None),
     Reply("ok", None),
     Reply("ok", Some(<<Nameless>>)),
     Reply("ok", Some(<<Equator>>)),
     Reply("ok", Some(IF c = "museum" THEN <<Alpha>> ELSE <<Alpha, Beta>>))}

NoComponents == [addressComponents |-> None]
Pearl ==
    [addressComponents |-> Some(<<
        AddressComponent(Some("Portland"), Some("PDX"), Some({"locality", "political"})),
        AddressComponent(None, Some("Pearl"), Some({"neighborhood"}))>>)]
Unnamed ==
    [addressComponents |-> Some(<<
        AddressComponent(None, None, Some({"neighborhood"})),
        AddressComponent(Some(""), None, None)>>)]

DetailReplies ==
    {Reply("rejected", NoComponents),
     Reply("notOk", NoComponents),
     Reply("ok", NoComponents),
     Reply("ok", Pearl),
     Reply("ok", Unnamed)}

(***************************************************************************)
(* One invocation of handler.                                              *)
(***************************************************************************)
\* the request of the event, where parseJsonBody returned one
Req == parseJsonBody(event).req

\* a handler without its credential check
KeyMissing_Never(key) == FALSE

\* !apiKey
KeyMissing(key) == ~TruthyStr(key)

\* an origin resolver that geocodes whenever a postal code is given
NeedsGeocode_ZipFirst(req) ==
    IsSome(req.zipCode) /\ req.zipCode[1] # <<>>

\* req.origin ?? (req.zipCode ? await geocodeZipToLatLng(...) : undefined)
\* awaits the geocoder
NeedsGeocode(req) ==
    ~IsSome(req.origin) /\ IsSome(req.zipCode) /\ req.zipCode[1] # <<>>

Awaiting == {"geocoding", "searching", "enriching"}

Init ==
    /\ event \in Events
    /\ apiKey \in ApiKeys
    /\ pc = "start"
    /\ origin = None
    /\ geocodeCalls = 0
    /\ searchCalls = 0
    /\ detailCalls = 0
    /\ searchSt = [c \in Categories |-> "idle"]
    /\ results = [c \in Categories |-> <<>>]
    /\ assembled = FALSE
    /\ chosen = <<>>
    /\ detailSt = <<>>
    /\ detailsById = <<>>
    /\ response = NoResponse
    /\ places = <<>>
    /\ count = 0
    /\ picked = <<>>
    /\ pickPc = "off"

\* return
Return(resp) ==
    /\ response' = resp
    /\ pc' = "responded"

\* an exception leaves handler: its promise rejects, nothing is returned
Throw ==
    /\ pc' = "thrown"
    /\ UNCHANGED response

\* lines 377-406: the four searches are issued together
FetchCandidates(org) ==
    /\ origin' = org
    /\ searchSt' = [c \in Categories |-> "pending"]
    /\ searchCalls' = searchCalls + Cardinality(Categories)
    /\ pc' = "searching"
    /\ UNCHANGED response

\* line 317
Preflight ==
    /\ pc = "start"
    /\ event.method = "OPTIONS"
    /\ Return(PreflightResponse)
    /\ UNCHANGED <<event, apiKey, origin, geocodeCalls, searchCalls, detailCalls,
                   searchSt, results, assembled, chosen, detailSt, detailsById,
                   pickVars>>

\* lines 321-336
RejectBody ==
    /\ pc = "start"
    /\ event.method # "OPTIONS"
    /\ parseJsonBody(event).threw # ""
    /\ Return(ErrorResponse(400, "Invalid request",
                            parseJsonBody(event).threw = "ZodError"))
    /\ UNCHANGED <<event, apiKey, origin, geocodeCalls, searchCalls, detailCalls,
                   searchSt, results, assembled, chosen, detailSt, detailsById,
                   pickVars>>

\* lines 338-347
RejectMissingKey ==
    /\ pc = "start"
    /\ event.method # "OPTIONS"
    /\ parseJsonBody(event).threw = ""
    /\ KeyMissing(apiKey)
    /\ Return(ErrorResponse(500, "Server misconfigured: missing GOOGLE_MAPS_API_KEY",
                            FALSE))
    /\ UNCHANGED <<event, apiKey, origin, geocodeCalls, searchCalls, detailCalls,
                   searchSt, results, assembled, chosen, detailSt, detailsById,
                   pickVars>>

\* lines 361-374, to the first await
ResolveOrigin ==
    /\ pc = "start"
    /\ event.method # "OPTIONS"
    /\ parseJsonBody(event).threw = ""
    /\ ~KeyMissing(apiKey)
    /\ IF NeedsGeocode(Req)
       THEN /\ geocodeCalls' = geocodeCalls + 1
            /\ pc' = "geocoding"
            /\ UNCHANGED <<origin, searchSt, searchCalls, response>>
       ELSE IF IsSome(Req.origin)
       THEN /\ FetchCandidates(Req.origin)
            /\ UNCHANGED geocodeCalls
       ELSE /\ Return(ErrorResponse(400, "Provide either origin {lat,lng} or zipCode",
                                    FALSE))
            /\ UNCHANGED <<origin, geocodeCalls, searchSt, searchCalls>>
    /\ UNCHANGED <<event, apiKey, detailCalls, results, assembled, chosen,
                   detailSt, detailsById, pickVars>>

\* the geocoder answers: lines 132-140, then 366-406
GeocodeReply(reply) ==
    /\ pc = "geocoding"
    /\ IF geocodeZipToLatLng(reply).threw
       THEN /\ Throw
            /\ UNCHANGED <<origin, searchSt, searchCalls>>
       ELSE FetchCandidates(geocodeZipToLatLng(reply).value)
    /\ UNCHANGED <<event, apiKey, geocodeCalls, detailCalls, results, assembled,
                   chosen, detailSt, detailsById, pickVars>>

\* lines 408-472, to the await of the detail fetches, or to the return when
\* there is nothing to await
AssembleStops(res) ==
    LET stops == ChooseStops(res, Req)
    IN  /\ assembled' = TRUE
        /\ IF Explain(Req) /\ Len(stops) > 0
           THEN /\ chosen' = stops
                /\ detailSt' = [i \in 1..Len(stops) |-> "pending"]
                /\ detailCalls' = detailCalls + Len(stops)
                /\ pc' = "enriching"
                /\ UNCHANGED response
           ELSE /\ chosen' = stops
                /\ Return(BuildResponse(stops))
                /\ UNCHANGED <<detailSt, detailCalls>>

\* the search of category c answers: lines 244-250, then Promise.all
SearchReply(c, reply) ==
    /\ pc = "searching"
    /\ searchSt[c] = "pending"
    /\ LET r == nearbySearchPlacesV1(reply)
           st == [searchSt EXCEPT ![c] = IF r.threw THEN "failed" ELSE "ok"]
           res == [results EXCEPT ![c] = r.value]
       IN  /\ searchSt' = st
           /\ results' = res
           /\ CASE PromiseAll(st) = "rejected" ->
                    /\ Throw
                    /\ UNCHANGED <<assembled, chosen, detailSt, detailCalls>>
                [] PromiseAll(st) = "fulfilled" -> AssembleStops(res)
                [] OTHER ->
                    UNCHANGED <<pc, response, assembled, chosen, detailSt, detailCalls>>
    /\ UNCHANGED <<event, apiKey, origin, geocodeCalls, searchCalls, detailsById,
                   pickVars>>

\* the detail fetch of stop i answers: lines 179-184 and 470, then Promise.all,
\* the loop or the catch, and the response
DetailReply(i, reply) ==
    /\ pc = "enriching"
    /\ i \in DOMAIN detailSt
    /\ detailSt[i] = "pending"
    /\ LET r == getPlaceDetailsV1(reply)
           st == [detailSt EXCEPT ![i] = IF r.threw THEN "failed" ELSE "ok"]
           byId == IF r.threw THEN detailsById
                   ELSE (chosen[i].id :> r.value) @@ detailsById
       IN  /\ detailSt' = st
           /\ detailsById' = byId
           /\ CASE PromiseAll(st) = "rejected" ->
                    /\ chosen' = EnrichmentCatch(chosen, byId)
                    /\ Return(BuildResponse(chosen'))
                [] PromiseAll(st) = "fulfilled" ->
                    /\ chosen' = EnrichStops(chosen, byId)
                    /\ Return(BuildResponse(chosen'))
                [] OTHER -> UNCHANGED <<pc, response, chosen>>
    /\ UNCHANGED <<event, apiKey, origin, geocodeCalls, searchCalls, detailCalls,
                   searchSt, results, assembled, pickVars>>

\* infra-stack.ts line 21: the platform ends an invocation that is still
\* waiting when its time is up; handler returns nothing
LambdaTimeout ==
    /\ pc \in Awaiting
    /\ pc' = "killed"
    /\ UNCHANGED <<event, apiKey, origin, geocodeCalls, searchCalls, detailCalls,
                   searchSt, results, assembled, chosen, detailSt, detailsById,
                   response, pickVars>>

Next ==
    \/ Preflight
    \/ RejectBody
    \/ RejectMissingKey
    \/ ResolveOrigin
    \/ \E reply \in GeocodeReplies : GeocodeReply(reply)
    \/ \E c \in Categories : \E reply \in SearchReplies(c) : SearchReply(c, reply)
    \/ \E i \in DOMAIN detailSt, reply \in DetailReplies : DetailReply(i, reply)
    \/ LambdaTimeout

Spec == Init /\ [][Next]_vars

\* The steps of handler itself and the platform's timer always come; nothing
\* makes an external service answer.
FairSpec ==
    /\ Init
    /\ [][Next]_vars
    /\ WF_vars(Preflight)
    /\ WF_vars(RejectBody)
    /\ WF_vars(RejectMissingKey)
    /\ WF_vars(ResolveOrigin)
    /\ WF_vars(LambdaTimeout)

(***************************************************************************)
(* pickTopPlaces on its own: any candidate list, any count.                *)
(***************************************************************************)
Ratings == {None} \cup {Some(r) : r \in 0..MaxRating}
RatingCounts == {None, Some(0), Some(7)}

PickCandidates ==
    {Place(Some(id), Some("Name"), lat, Some(-122), r, c) :
        id \in {"a", "b"}, lat \in {Some(0), Some(45)},
        r \in Ratings, c \in RatingCounts}
    \cup {Place(None, Some("Name"), Some(45), Some(-122), Some(MaxRating), None),
          Place(Some(""), Some("Name"), Some(45), Some(-122), Some(MaxRating), None),
          Place(Some("c"), None, Some(45), Some(-122), Some(MaxRating), None),
          Place(Some("c"), Some("Name"), None, None, Some(MaxRating), None),
          Place(Some("c"), Some("Name"), Some(45), Some(0), Some(MaxRating), None)}

RECURSIVE SeqsUpTo(_, _)
SeqsUpTo(S, n) ==
    IF n = 0 THEN {<<>>}
    ELSE SeqsUpTo(S, n - 1)
         \cup {Append(s, x) : s \in {t \in SeqsUpTo(S, n - 1) : Len(t) = n - 1}, x \in S}

PickInit ==
    /\ places \in SeqsUpTo(PickCandidates, MaxPlaces)
    /\ count \in 1..MaxPlaces
    /\ picked = <<>>
    /\ pickPc = "ready"
    /\ event = [method |-> "OPTIONS", body |-> [wellFormed |-> TRUE, json |-> EmptyJson]]
    /\ apiKey = None
    /\ pc = "off"
    /\ origin = None
    /\ geocodeCalls = 0
    /\ searchCalls = 0
    /\ detailCalls = 0
    /\ searchSt = [c \in Categories |-> "idle"]
    /\ results = [c \in Categories |-> <<>>]
    /\ assembled = FALSE
    /\ chosen = <<>>
    /\ detailSt = <<>>
    /\ detailsById = <<>>
    /\ response = NoResponse

PickCall ==
    /\ pickPc = "ready"
    /\ picked' = pickTopPlaces(places, count)
    /\ pickPc' = "done"
    /\ UNCHANGED <<places, count, handlerVars>>

PickNext == PickCall

PickSpec == PickInit /\ [][PickNext]_vars

(***************************************************************************)
(* The claims.                                                             *)
(***************************************************************************)
Range(s) == {s[i] : i \in DOMAIN s}

IsPost == event.method = "POST"

\* handler has ended by itself: it returned, or its promise rejected
Settled == pc \in {"responded", "thrown"}

AnySearchFailed == \E c \in Categories : searchSt[c] = "failed"
AllSearchesOk == \A c \in Categories : searchSt[c] = "ok"
AnyDetailFailed == \E i \in DOMAIN detailSt : detailSt[i] = "failed"

\* the response is an error response: status 4xx or 5xx, the CORS headers and
\* a body with a non-empty `error`
IsErrorResponse(r) ==
    /\ r.statusCode >= 400
    /\ r.headers = CORS_HEADERS
    /\ TruthyStr(r.error)

\* C1: every POST request that ends without a 200 itinerary (malformed JSON,
\* schema violation, missing credential, geocoding failure, a failed category
\* search, zero stops) ends with an error response carrying the CORS headers
\* and an `error` field; handler never throws.
C1_FailingPostGetsErrorResponse ==
    (IsPost /\ Settled /\ response.statusCode # 200) => IsErrorResponse(response)

\* C2: with explain true, when a detail fetch fails the request still ends
\* with status 200 and the stop list is exactly the assembled one: the same
\* stops in the same order, each with the rationale assembly gave it; and when
\* every detail fetch succeeds the status is 200 and the stops' ids, order and
\* kinds are those same ones.
C2_EnrichmentFailureKeepsOutcome ==
    (pc = "responded" /\ Len(detailSt) > 0) =>
        LET base == ChooseStops(results, Req)
        IN  /\ response.statusCode = 200
            /\ response.totalStops = Some(Len(base))
            /\ Len(response.stops) = Len(base)
            /\ \A i \in 1..Len(base) :
                    /\ response.stops[i].id = base[i].id
                    /\ response.stops[i].order = base[i].order
                    /\ response.stops[i].kind = base[i].kind
            /\ AnyDetailFailed => response.stops = base

\* a detail fetch failed after another stop's details, holding a label, arrived
C2_Witness ==
    /\ pc = "responded"
    /\ AnyDetailFailed
    /\ \E i \in DOMAIN detailSt :
            /\ detailSt[i] = "ok"
            /\ chosen[i].id \in DOMAIN detailsById
            /\ TruthyStr(extractNeighborhoodLikeLabel(detailsById[chosen[i].id]))
    /\ response.statusCode = 200

NoCandidatePasses ==
    \A c \in Categories : \A i \in 1..Len(results[c]) : ~PassesFilter(results[c][i])

\* C3: when all four searches succeeded and no candidate of any category is
\* eligible (read as widely as the selector reads it: none passes its filter,
\* which holds in particular when none has id, name and coordinate), handler
\* returns 404 with an error body; every 200 response holds at least one stop
\* and meta.totalStops is the length of the stop list.
C3_NoStopsIsNotFound ==
    /\ (pc = "responded" /\ AllSearchesOk /\ NoCandidatePasses) =>
            (response.statusCode = 404 /\ IsErrorResponse(response))
    /\ response.statusCode = 200 =>
            /\ Len(response.stops) >= 1
            /\ response.totalStops = Some(Len(response.stops))

\* all four searches answered, with candidates, none of them eligible: 404
C3_Witness ==
    /\ pc = "responded"
    /\ AllSearchesOk
    /\ NoCandidatePasses
    /\ \E c \in Categories : Len(results[c]) > 0
    /\ response.statusCode = 404

\* C4: if any category search fails, the request produces no itinerary: stop
\* assembly is never reached, no stop is built, no detail fetch is issued and
\* no 200 is returned; and stop assembly is reached only with all four
\* searches fulfilled.
C4_SearchBarrierIsFatal ==
    /\ AnySearchFailed =>
            /\ ~assembled
            /\ Len(chosen) = 0
            /\ detailCalls = 0
            /\ response.statusCode # 200
    /\ assembled => AllSearchesOk

\* one search failed after another had returned an eligible candidate
C4_Witness ==
    /\ AnySearchFailed
    /\ \E c \in Categories :
            /\ searchSt[c] = "ok"
            /\ \E i \in 1..Len(results[c]) : PassesFilter(results[c][i])
    /\ pc = "thrown"

\* C5: the geocoder is called at most once per request (a failed attempt is
\* not retried), never for a request that carries an explicit coordinate, and
\* exactly once for a valid request with only a postal code once origin
\* resolution has run.
C5_GeocodeAtMostOnce ==
    /\ geocodeCalls <= 1
    /\ IsSome(Req.origin) => geocodeCalls = 0
    /\ (/\ IsPost
        /\ parseJsonBody(event).threw = ""
        /\ TruthyStr(apiKey)
        /\ ~IsSome(Req.origin)
        /\ pc # "start") => geocodeCalls = 1

\* the one geocoding attempt failed and the request ended there
C5_Witness ==
    /\ pc = "thrown"
    /\ ~IsSome(Req.origin)
    /\ geocodeCalls = 1
    /\ searchCalls = 0

\* C6: in every 200 response, no stop has a rationale when explain is false
\* or absent, and every stop has a non-empty rationale when explain is true.
C6_RationaleFollowsExplain ==
    response.statusCode = 200 =>
        \A i \in 1..Len(response.stops) :
            IF Req.explain = Some("true")
            THEN TruthyStr(response.stops[i].rationale)
            ELSE response.stops[i].rationale = None

\* a 200 with explain true where enrichment was cut short by a failed fetch
C6_Witness ==
    /\ response.statusCode = 200
    /\ Req.explain = Some("true")
    /\ AnyDetailFailed
    /\ Len(response.stops) >= 2

\* C7: no external call is ever issued for an OPTIONS request, for a body that
\* parsing or validation rejects, or while the credential is absent.
C7_NoCallBeforeRejection ==
    (\/ event.method = "OPTIONS"
     \/ parseJsonBody(event).threw # ""
     \/ ~TruthyStr(apiKey)) =>
        (geocodeCalls = 0 /\ searchCalls = 0 /\ detailCalls = 0)

\* a valid postal-code request answered 500 for want of the credential
C7_Witness ==
    /\ pc = "responded"
    /\ IsPost
    /\ parseJsonBody(event).threw = ""
    /\ ~IsSome(Req.origin)
    /\ ~TruthyStr(apiKey)
    /\ response.statusCode = 500
    /\ geocodeCalls = 0

\* C8: every external call is bounded by a timeout, so every invocation
\* eventually ends by itself, never left waiting on a service that does not
\* answer.  (Stated generously: a rejection of handler, C1, counts as an end.)
C8_HandlerAlwaysEnds == <>Settled

\* what the claims call eligible: an identifier, a display name and both
\* coordinates present, whatever the coordinates' values
HasRequiredFields(p) ==
    /\ TruthyStr(p.id)
    /\ TruthyStr(p.name)
    /\ IsSome(p.latitude)
    /\ IsSome(p.longitude)

\* C9: pickTopPlaces drops a candidate if and only if its identifier, its
\* display name or its coordinate is missing: asked for as many candidates as
\* the list holds, it returns exactly those that have all of them, latitude 0
\* and longitude 0 included.
C9_DropsOnlyIncomplete ==
    (pickPc = "done" /\ count >= Len(places)) =>
        \A i \in 1..Len(places) :
            HasRequiredFields(places[i]) <=> places[i] \in Range(picked)

\* position i of ps goes before position j in the order (rating descending,
\* rating count descending, input position ascending), missing values as 0
GoesBefore(ps, i, j) ==
    LET ri == Nullish(ps[i].rating, 0)
        rj == Nullish(ps[j].rating, 0)
        ci == Nullish(ps[i].userRatingCount, 0)
        cj == Nullish(ps[j].userRatingCount, 0)
    IN  \/ ri > rj
        \/ ri = rj /\ ci > cj
        \/ ri = rj /\ ci = cj /\ i < j

\* the candidates of ps that satisfy Elig, in that order
Ranked(ps, Elig(_)) ==
    LET idx == {i \in 1..Len(ps) : Elig(ps[i])}
        rank(i) == 1 + Cardinality({j \in idx : GoesBefore(ps, j, i)})
    IN  [k \in 1..Cardinality(idx) |-> ps[CHOOSE i \in idx : rank(i) = k]]

\* C10: pickTopPlaces(places, count) is the first `count` eligible candidates
\* of the order (rating descending, rating count descending, input position
\* ascending), a missing rating or rating count being 0.
C10_PicksFirstOfOrder ==
    pickPc = "done" => picked = Slice(Ranked(places, HasRequiredFields), count)

\* C10, over the candidates the filter of pickTopPlaces keeps (C9): the
\* ordering itself is the claimed one
C10_OrderOverKeptCandidates ==
    pickPc = "done" => picked = Slice(Ranked(places, PassesFilter), count)

\* where a kind stands in the fixed sequence of an itinerary
KindRank(kind) ==
    IF kind = "coffee" THEN 1 ELSE IF kind = "activity" THEN 2 ELSE 3

\* the ids of the stops of one kind, in list order
IdsOfKind(stops, kind) ==
    LET of == SelectSeq(stops, LAMBDA st : st.kind = kind)
    IN  [i \in 1..Len(of) |-> of[i].id]

\* the ids of the places a category's pick holds
PickIds(c) ==
    LET p == pickTopPlaces(results[c], 1)
    IN  [i \in 1..Len(p) |-> p[i].id[1]]

\* a stop list numbered 1, 2, ... in the sequence coffee, activity (the park
\* pick before the museum pick), restaurant, with at most one coffee stop, two
\* activity stops and one restaurant stop
StopListInOrder(stops) ==
    /\ \A i \in 1..Len(stops) : stops[i].order = i
    /\ \A i, j \in 1..Len(stops) :
            i < j => KindRank(stops[i].kind) <= KindRank(stops[j].kind)
    /\ \A i \in 1..Len(stops) : stops[i].kind \in {"coffee", "activity", "restaurant"}
    /\ Len(IdsOfKind(stops, "coffee")) <= 1
    /\ Len(IdsOfKind(stops, "activity")) <= 2
    /\ Len(IdsOfKind(stops, "restaurant")) <= 1
    /\ assembled => IdsOfKind(stops, "activity") = PickIds("park") \o PickIds("museum")

\* a step leaves every stop's id, order, kind and duration as they were
StopsKeepIdentity ==
    /\ Len(chosen') = Len(chosen)
    /\ \A i \in 1..Len(chosen) :
            /\ chosen'[i].id = chosen[i].id
            /\ chosen'[i].order = chosen[i].order
            /\ chosen'[i].kind = chosen[i].kind
            /\ chosen'[i].estimatedDurationMinutes = chosen[i].estimatedDurationMinutes

\* C11: in every assembled stop list, and in the list of every 200 response,
\* the stop at position i has order i, the kinds run coffee, activity (park
\* pick before museum pick), restaurant, with at most one coffee, two activity
\* and one restaurant stop; and enrichment leaves every stop's id, order, kind
\* and duration unchanged.
C11_StopsOrderedAndStable ==
    /\ [](StopListInOrder(chosen)
          /\ (response.statusCode = 200 => response.stops = chosen))
    /\ [][pc = "enriching" => StopsKeepIdentity]_vars

\* four stops, the park's and the museum's picks being different places, in a
\* 200 response whose first stop enrichment has labelled
C11_Witness ==
    /\ response.statusCode = 200
    /\ Len(response.stops) = 4
    /\ PickIds("park") # PickIds("museum")
    /\ response.stops[1].rationale # Some(CoffeeRationale)
    /\ IsSome(response.stops[1].rationale)

====
